---- MODULE Spec2Model ----
(***************************************************************************)
(* State-machine model of the college messaging / posting backend:         *)
(*   - the like toggle of posts and comments (REST handlers likePost and   *)
(*     likeComment, Convex mutations likePost and likeComment),            *)
(*   - the comment counter (createComment, deleteComment),                 *)
(*   - the messaging permission gate and the recipient resolution of       *)
(*     sendMessage.                                                        *)
(* A REST handler is a sequence of store calls; every `await` on the store *)
(* is a step boundary, so one handler is several actions and the steps of  *)
(* different requests interleave.  A Convex mutation is one transaction    *)
(* and therefore one action.                                               *)
(***************************************************************************)
EXTENDS Integers, Sequences, FiniteSets, TLC

\* ------------------------------------------------------------------ bounds
MaxLikeReqs == 3        \* like requests issued in one run
MaxCommentReqs == 3     \* createComment / deleteComment requests in one run
MaxMsgReqs == 1         \* sendMessage requests in one run
MaxToggles == 2         \* length of a serial toggle sequence
MaxReqs == 3            \* requests of the owner-checked handlers in one run
MaxDenied == 2          \* requests in one run of denied and not-found requests
MaxThread == 3          \* stored messages when a conversation is assembled
MaxTime == 2            \* distinct creation times of those messages
MaxConvexNotifs == 1    \* calls of the Convex createNotification mutation

\* --------------------------------------------------------------- constants
Null == "null"          \* JS null / undefined / absent optional field
EmptyStr == ""          \* the empty string, falsy in JS

LikeReqIds == 1..MaxLikeReqs
CommentReqIds == 1..MaxCommentReqs
MsgReqIds == 1..MaxMsgReqs
MsgSlots == 1..(MaxMsgReqs + 1)
ReqIds == 1..MaxReqs

\* The users stored by the seed script: one official, one teacher, students
\* of two branches.
SeedUsers ==
  [u \in {"o1", "t1", "s1", "s2"} |->
     CASE u = "o1" -> [role |-> "OFFICIAL", position |-> "Director", branch |-> Null]
       [] u = "t1" -> [role |-> "TEACHER",  position |-> Null, branch |-> "CSE"]
       [] u = "s1" -> [role |-> "STUDENT",  position |-> Null, branch |-> "CSE"]
       [] u = "s2" -> [role |-> "STUDENT",  position |-> Null, branch |-> "IT"]]

UserIds == DOMAIN SeedUsers

\* The authenticated users that issue like and comment requests.
Actors == {"s1", "s2"}

\* Ids a request may name for a post (post 2 is never stored, so a lookup of
\* it finds nothing) and for a comment (comment 1 is stored from the start,
\* the others are stored once a createComment has created them).
PostIds == {1, 2}
CommentIds == 1..(MaxCommentReqs + 1)
\* Ids a likeComment request may name (comment 2 is not stored while only
\* likes are requested).
LikedCommentIds == {1, 2}

VARIABLES
  users,         \* prisma.user     : id -> [role, branch]
  posts,         \* prisma.post     : id -> [authorId, likes, likedBy, commentCount]
  comments,      \* prisma.comment  : id -> [postId, authorId, likes, likedBy]
  messages,      \* prisma.message  : id -> [senderId, messageType, ..., recipients, isRead]
  nextId,        \* the ids the store gives to the next created comment / message
  likeReqs,      \* the likePost / likeComment requests and their positions
  commentReqs,   \* the createComment / deleteComment requests and their positions
  msgReqs,       \* the sendMessage requests and their positions
  perm,          \* one evaluation of validateMessagePermissions
  tog,           \* one serial run of like toggles on a single row
  notifs,        \* prisma.notification : id -> [userId, type, referenceId, isRead]
  convex,        \* the Convex tables messages and notifications (insertion order)
  reqs,          \* the requests of the owner-checked handlers and their positions
  conv           \* one conversation query: the stored messages, arguments, result

storeVars == <<users, posts, comments, messages, nextId>>
oldReqVars == <<likeReqs, commentReqs, msgReqs, perm, tog>>
extVars == <<notifs, convex, reqs, conv>>
vars == <<users, posts, comments, messages, nextId, likeReqs, commentReqs, msgReqs,
          perm, tog, notifs, convex, reqs, conv>>

\* ----------------------------------------------------------------- helpers
Range(s) == {s[i] : i \in 1..Len(s)}

\* Array.prototype.includes
Includes(s, x) == \E i \in 1..Len(s) : s[i] = x

\* likedBy.filter(userId => userId !== x)
RECURSIVE FilterOut(_, _)
FilterOut(s, x) ==
  IF s = <<>> THEN <<>>
  ELSE IF Head(s) = x THEN FilterOut(Tail(s), x)
       ELSE <<Head(s)>> \o FilterOut(Tail(s), x)

NoDuplicates(s) == \A i, j \in 1..Len(s) : i # j => s[i] # s[j]

\* A row as prisma.post.create / prisma.comment.create stores it (likes,
\* likedBy and commentCount take the schema defaults 0, [] and 0).
NewPost(author) ==
  [authorId |-> author, content |-> "c0", likes |-> 0, likedBy |-> <<>>,
   commentCount |-> 0]
NewComment(post, author) ==
  [postId |-> post, authorId |-> author, content |-> "c0", likes |-> 0,
   likedBy |-> <<>>]

NoLikeReq ==
  [op |-> Null, user |-> Null, id |-> 0, pc |-> "idle", likedBy |-> <<>>,
   status |-> 0, conc |-> {}]
NoCommentReq ==
  [op |-> Null, user |-> Null, id |-> 0, pc |-> "idle", postId |-> 0,
   status |-> 0]
NoMsgReq ==
  [pc |-> "idle", user |-> Null, sender |-> Null, targetRole |-> Null,
   targetBranch |-> Null, recipientIds |-> <<>>, messageType |-> Null,
   recipients |-> {}, msgId |-> 0, status |-> 0, usersAtSend |-> <<>>]
NoReq ==
  [op |-> Null, user |-> Null, id |-> 0, arg |-> Null, pc |-> "idle",
   status |-> 0, outcome |-> Null, storeOk |-> TRUE]
NoConv == [store |-> <<>>, impl |-> Null, a |-> Null, b |-> Null,
           result |-> <<>>, called |-> FALSE]
NoConvex == [notifications |-> <<>>]
NoPerm == [sender |-> Null, targetRole |-> Null, targetBranch |-> Null,
           result |-> FALSE, called |-> FALSE]
NoTog == [impl |-> Null, kind |-> Null, start |-> NewPost("s1"),
          row |-> NewPost("s1"), trace |-> <<>>]

\* ------------------------------------------------------------------- Init
\* The store after the seed script, one createPost by s1 and one
\* createComment on it by s2; no request is in progress.
Init ==
  /\ users = SeedUsers
  /\ posts = (1 :> [NewPost("s1") EXCEPT !.commentCount = 1])
  /\ comments = (1 :> NewComment(1, "s2"))
  /\ messages = <<>>
  /\ nextId = [comment |-> 2, message |-> 1, notification |-> 1]
  /\ notifs = <<>>
  /\ convex = NoConvex
  /\ reqs = [r \in ReqIds |-> NoReq]
  /\ conv = NoConv
  /\ likeReqs = [r \in LikeReqIds |-> NoLikeReq]
  /\ commentReqs = [r \in CommentReqIds |-> NoCommentReq]
  /\ msgReqs = [r \in MsgSlots |-> NoMsgReq]
  /\ perm = NoPerm
  /\ tog = NoTog

\* ============================================================ like toggle
\* LikeUpdate with the unlike branch forgetting the decrement of likes.
LikeUpdate_NoDecrement(row, snap, u) ==
  LET hasLiked == Includes(snap, u) IN
  [row EXCEPT
     !.likes = IF hasLiked THEN @ ELSE @ + 1,
     !.likedBy = IF hasLiked THEN FilterOut(snap, u) ELSE Append(@, u)]

\* The `data` of prisma.post.update / prisma.comment.update in likePost and
\* likeComment, applied by the store to the current row `row`: `snap` is the
\* likedBy array the handler read earlier.  { increment }, { decrement } and
\* { push } act on the stored value, { set } overwrites it.
LikeUpdate(row, snap, u) ==
  LET hasLiked == Includes(snap, u) IN
  [row EXCEPT
     !.likes = IF hasLiked THEN @ - 1 ELSE @ + 1,
     !.likedBy = IF hasLiked THEN FilterOut(snap, u) ELSE Append(@, u)]

\* The like requests on the same row that have read it and not yet written.
LikeInFlight(op, id) ==
  {r \in LikeReqIds : likeReqs[r].op = op /\ likeReqs[r].id = id
                      /\ likeReqs[r].pc = "update"}

\* Requests are issued in the order of their ids.
LikeSlotFree(r) ==
  /\ likeReqs[r].pc = "idle"
  /\ r > 1 => likeReqs[r - 1].pc # "idle"

\* likePost up to its first store call: prisma.post.findUnique.
likePost_findUnique(r, u, id) ==
  /\ LikeSlotFree(r)
  /\ likeReqs' = [likeReqs EXCEPT ![r] =
       IF id \in DOMAIN posts
       THEN [op |-> "likePost", user |-> u, id |-> id, pc |-> "update",
             likedBy |-> posts[id].likedBy, status |-> 0,
             conc |-> LikeInFlight("likePost", id)]
       ELSE [op |-> "likePost", user |-> u, id |-> id, pc |-> "done",
             likedBy |-> <<>>, status |-> 404, conc |-> {}]]
  /\ UNCHANGED <<storeVars, commentReqs, msgReqs, perm, tog, extVars>>

\* likePost from prisma.post.update to the response.
likePost_update(r) ==
  LET q == likeReqs[r] IN
  /\ q.op = "likePost" /\ q.pc = "update"
  /\ IF q.id \in DOMAIN posts
     THEN /\ posts' = [posts EXCEPT ![q.id] = LikeUpdate(@, q.likedBy, q.user)]
          /\ likeReqs' = [likeReqs EXCEPT ![r].pc = "done", ![r].status = 200]
     ELSE /\ UNCHANGED posts
          /\ likeReqs' = [likeReqs EXCEPT ![r].pc = "done", ![r].status = 500]
  /\ UNCHANGED <<users, comments, messages, nextId, commentReqs, msgReqs, perm, tog, extVars>>

\* likeComment up to its first store call: prisma.comment.findUnique.
likeComment_findUnique(r, u, id) ==
  /\ LikeSlotFree(r)
  /\ likeReqs' = [likeReqs EXCEPT ![r] =
       IF id \in DOMAIN comments
       THEN [op |-> "likeComment", user |-> u, id |-> id, pc |-> "update",
             likedBy |-> comments[id].likedBy, status |-> 0,
             conc |-> LikeInFlight("likeComment", id)]
       ELSE [op |-> "likeComment", user |-> u, id |-> id, pc |-> "done",
             likedBy |-> <<>>, status |-> 404, conc |-> {}]]
  /\ UNCHANGED <<storeVars, commentReqs, msgReqs, perm, tog, extVars>>

\* likeComment from prisma.comment.update to the response.
likeComment_update(r) ==
  LET q == likeReqs[r] IN
  /\ q.op = "likeComment" /\ q.pc = "update"
  /\ IF q.id \in DOMAIN comments
     THEN /\ comments' = [comments EXCEPT ![q.id] = LikeUpdate(@, q.likedBy, q.user)]
          /\ likeReqs' = [likeReqs EXCEPT ![r].pc = "done", ![r].status = 200]
     ELSE /\ UNCHANGED comments
          /\ likeReqs' = [likeReqs EXCEPT ![r].pc = "done", ![r].status = 500]
  /\ UNCHANGED <<users, posts, messages, nextId, commentReqs, msgReqs, perm, tog, extVars>>

\* ----------------------------------------------- like toggle: properties
LikeRows == [op : {"likePost"}, id : DOMAIN posts]
              \cup [op : {"likeComment"}, id : DOMAIN comments]
LikeRow(e) == IF e.op = "likePost" THEN posts[e.id] ELSE comments[e.id]

\* The like requests on row e that have written (answered 200).
LikeDone(e) ==
  {r \in LikeReqIds : likeReqs[r].op = e.op /\ likeReqs[r].id = e.id
                      /\ likeReqs[r].pc = "done" /\ likeReqs[r].status = 200}
LikeQuiet(e) == LikeInFlight(e.op, e.id) = {}

\* The members of likedBy after the completed toggles on row e are applied
\* one after the other to the initially empty likedBy: a user is a member
\* iff they toggled an odd number of times (the order does not matter).
SerialLikedBy(e) ==
  {u \in Actors :
     Cardinality({r \in LikeDone(e) : likeReqs[r].user = u}) % 2 = 1}
MatchesSerial(e) ==
  /\ LikeRow(e).likes = Cardinality(SerialLikedBy(e))
  /\ Range(LikeRow(e).likedBy) = SerialLikedBy(e)
  /\ Len(LikeRow(e).likedBy) = Cardinality(SerialLikedBy(e))

\* r1 and r2 overlapped: one of them read the row while the other was
\* between its read and its write.
Overlapped(r1, r2) == r1 \in likeReqs[r2].conc \/ r2 \in likeReqs[r1].conc
LikeReqsOn(e) ==
  {r \in LikeReqIds : likeReqs[r].op = e.op /\ likeReqs[r].id = e.id}

\* C1: in every reachable state every Post and every Comment has
\* likes equal to the number of entries of likedBy.
C1_LikesEqualsLikedBy ==
  /\ \A p \in DOMAIN posts : posts[p].likes = Len(posts[p].likedBy)
  /\ \A c \in DOMAIN comments : comments[c].likes = Len(comments[c].likedBy)

\* C2: when the only requests on a row that overlapped in time are requests
\* of different users, then once all of them have completed likes and
\* likedBy are those of the toggles applied one after the other.
C2_DifferentUsersBothReflected ==
  \A e \in LikeRows :
    (/\ LikeQuiet(e)
     /\ \A r1, r2 \in LikeReqsOn(e) :
          (r1 # r2 /\ Overlapped(r1, r2)) => likeReqs[r1].user # likeReqs[r2].user)
    => MatchesSerial(e)

\* C3: the likePost toggle is atomic: when all the likePost requests on a
\* post come from one user, then once they have completed likes and likedBy
\* are those of the same number of toggles run serially.
C3_SameUserAtomicToggle ==
  \A p \in DOMAIN posts :
    LET e == [op |-> "likePost", id |-> p] IN
    (/\ LikeQuiet(e)
     /\ \A r1, r2 \in LikeReqsOn(e) : likeReqs[r1].user = likeReqs[r2].user)
    => MatchesSerial(e)


\* C28: in every reachable state the likes counter of every Post and of
\* every Comment is at least 0, also when unlike requests of the same user
\* overlap.
C28_LikesNeverNegative ==
  /\ \A p \in DOMAIN posts : posts[p].likes >= 0
  /\ \A c \in DOMAIN comments : comments[c].likes >= 0

\* C29: in every reachable state likedBy of every Post and of every Comment
\* holds each user id at most once, also when like requests of the same
\* user overlap.
C29_LikedByHasNoDuplicates ==
  /\ \A p \in DOMAIN posts : NoDuplicates(posts[p].likedBy)
  /\ \A c \in DOMAIN comments : NoDuplicates(comments[c].likedBy)

LikeNext ==
  \/ \E r \in LikeReqIds, u \in Actors, id \in PostIds : likePost_findUnique(r, u, id)
  \/ \E r \in LikeReqIds : likePost_update(r)
  \/ \E r \in LikeReqIds, u \in Actors, id \in LikedCommentIds : likeComment_findUnique(r, u, id)
  \/ \E r \in LikeReqIds : likeComment_update(r)

SpecLike == Init /\ [][LikeNext]_vars

\* ========================================================= comment counter
CommentSlotFree(r) ==
  /\ commentReqs[r].pc = "idle"
  /\ r > 1 => commentReqs[r - 1].pc # "idle"

\* prisma.post.update with data { commentCount: { increment / decrement: 1 } }:
\* the store adds delta to the stored counter.
AdjustCommentCount(row, delta) == [row EXCEPT !.commentCount = @ + delta]

\* createComment (with a non-empty content) up to its first store call:
\* prisma.post.findUnique.
createComment_findUnique(r, u, postId) ==
  /\ CommentSlotFree(r)
  /\ commentReqs' = [commentReqs EXCEPT ![r] =
       IF postId \in DOMAIN posts
       THEN [op |-> "createComment", user |-> u, id |-> 0, pc |-> "create",
             postId |-> postId, status |-> 0]
       ELSE [op |-> "createComment", user |-> u, id |-> 0, pc |-> "done",
             postId |-> postId, status |-> 404]]
  /\ UNCHANGED <<storeVars, likeReqs, msgReqs, perm, tog, extVars>>

\* createComment: prisma.comment.create (rejected by the foreign key when
\* the post is gone).
createComment_create(r) ==
  LET q == commentReqs[r] IN
  /\ q.op = "createComment" /\ q.pc = "create"
  /\ IF q.postId \in DOMAIN posts
     THEN /\ comments' = (nextId.comment :> NewComment(q.postId, q.user)) @@ comments
          /\ nextId' = [nextId EXCEPT !.comment = @ + 1]
          /\ commentReqs' = [commentReqs EXCEPT ![r].pc = "update",
                                                ![r].id = nextId.comment]
     ELSE /\ UNCHANGED <<comments, nextId>>
          /\ commentReqs' = [commentReqs EXCEPT ![r].pc = "done", ![r].status = 500]
  /\ UNCHANGED <<users, posts, messages, likeReqs, msgReqs, perm, tog, extVars>>

\* createComment from prisma.post.update (commentCount increment) to the
\* response.
createComment_update(r) ==
  LET q == commentReqs[r] IN
  /\ q.op = "createComment" /\ q.pc = "update"
  /\ IF q.postId \in DOMAIN posts
     THEN /\ posts' = [posts EXCEPT ![q.postId] = AdjustCommentCount(@, 1)]
          /\ commentReqs' = [commentReqs EXCEPT ![r].pc = "done", ![r].status = 201]
     ELSE /\ UNCHANGED posts
          /\ commentReqs' = [commentReqs EXCEPT ![r].pc = "done", ![r].status = 500]
  /\ UNCHANGED <<users, comments, messages, nextId, likeReqs, msgReqs, perm, tog, extVars>>

\* deleteComment up to its first store call: prisma.comment.findUnique, then
\* the ownership check.
deleteComment_findUnique(r, u, id) ==
  /\ CommentSlotFree(r)
  /\ commentReqs' = [commentReqs EXCEPT ![r] =
       IF id \notin DOMAIN comments
       THEN [op |-> "deleteComment", user |-> u, id |-> id, pc |-> "done",
             postId |-> 0, status |-> 404]
       ELSE IF comments[id].authorId # u
       THEN [op |-> "deleteComment", user |-> u, id |-> id, pc |-> "done",
             postId |-> 0, status |-> 403]
       ELSE [op |-> "deleteComment", user |-> u, id |-> id, pc |-> "delete",
             postId |-> comments[id].postId, status |-> 0]]
  /\ UNCHANGED <<storeVars, likeReqs, msgReqs, perm, tog, extVars>>

\* deleteComment_delete with a delete that does not throw on a missing row
\* (as deleteMany would): the handler goes on to decrement the counter.
deleteComment_delete_NoThrow(r) ==
  LET q == commentReqs[r] IN
  /\ q.op = "deleteComment" /\ q.pc = "delete"
  /\ comments' = [c \in DOMAIN comments \ {q.id} |-> comments[c]]
  /\ commentReqs' = [commentReqs EXCEPT ![r].pc = "update"]
  /\ UNCHANGED <<users, posts, messages, nextId, likeReqs, msgReqs, perm, tog, extVars>>

\* deleteComment: prisma.comment.delete, which throws when the row is
\* already gone; the catch block answers 500.
deleteComment_delete(r) ==
  LET q == commentReqs[r] IN
  /\ q.op = "deleteComment" /\ q.pc = "delete"
  /\ IF q.id \in DOMAIN comments
     THEN /\ comments' = [c \in DOMAIN comments \ {q.id} |-> comments[c]]
          /\ commentReqs' = [commentReqs EXCEPT ![r].pc = "update"]
     ELSE /\ UNCHANGED comments
          /\ commentReqs' = [commentReqs EXCEPT ![r].pc = "done", ![r].status = 500]
  /\ UNCHANGED <<users, posts, messages, nextId, likeReqs, msgReqs, perm, tog, extVars>>

\* deleteComment from prisma.post.update (commentCount decrement) to the
\* response.
deleteComment_update(r) ==
  LET q == commentReqs[r] IN
  /\ q.op = "deleteComment" /\ q.pc = "update"
  /\ IF q.postId \in DOMAIN posts
     THEN /\ posts' = [posts EXCEPT ![q.postId] = AdjustCommentCount(@, -1)]
          /\ commentReqs' = [commentReqs EXCEPT ![r].pc = "done", ![r].status = 200]
     ELSE /\ UNCHANGED posts
          /\ commentReqs' = [commentReqs EXCEPT ![r].pc = "done", ![r].status = 500]
  /\ UNCHANGED <<users, comments, messages, nextId, likeReqs, msgReqs, perm, tog, extVars>>

\* ------------------------------------------- comment counter: properties
\* A createComment or deleteComment request on post p is between its first
\* store call and its response.
CommentInProgress(p) ==
  \E r \in CommentReqIds :
    /\ commentReqs[r].postId = p
    /\ commentReqs[r].pc \in {"create", "delete", "update"}

CommentRowsOf(p) == {c \in DOMAIN comments : comments[c].postId = p}

\* C5: in every reachable state the commentCount of every Post is >= 0.
C5_CommentCountNeverNegative ==
  \A p \in DOMAIN posts : posts[p].commentCount >= 0

\* C6: whenever no createComment or deleteComment request on a post is in
\* progress, its commentCount is the number of stored Comment rows of it.
C6_CommentCountMatchesRows ==
  \A p \in DOMAIN posts :
    ~CommentInProgress(p) => posts[p].commentCount = Cardinality(CommentRowsOf(p))

\* Two deleteComment requests raced on one comment (the loser answered 500),
\* a createComment completed, and nothing is in progress.
C6_Witness ==
  /\ ~CommentInProgress(1)
  /\ \E r1, r2, r3 \in CommentReqIds :
       /\ commentReqs[r1].op = "deleteComment" /\ commentReqs[r1].status = 200
       /\ commentReqs[r2].op = "deleteComment" /\ commentReqs[r2].status = 500
       /\ commentReqs[r1].id = commentReqs[r2].id
       /\ commentReqs[r3].op = "createComment" /\ commentReqs[r3].status = 201

CommentNext ==
  \/ \E r \in CommentReqIds, u \in Actors, p \in PostIds : createComment_findUnique(r, u, p)
  \/ \E r \in CommentReqIds : createComment_create(r)
  \/ \E r \in CommentReqIds : createComment_update(r)
  \/ \E r \in CommentReqIds, u \in Actors, c \in CommentIds : deleteComment_findUnique(r, u, c)
  \/ \E r \in CommentReqIds : deleteComment_delete(r)
  \/ \E r \in CommentReqIds : deleteComment_update(r)

SpecComment == Init /\ [][CommentNext]_vars

\* ==================================================== messaging permission
Roles == {"OFFICIAL", "TEACHER", "STUDENT"}
Branches == {"CSE", "IT"}
\* Values a sender's role / a branch can take in a call (a role outside the
\* three stored roles, an absent branch and the empty string included).
AnyRole == Roles \cup {"GUEST"}
AnyBranch == Branches \cup {Null, EmptyStr}

\* JS truthiness of an optional string.
Truthy(x) == x # Null /\ x # EmptyStr
\* x || d
OrElse(x, d) == IF Truthy(x) THEN x ELSE d

\* validateMessagePermissions with the TEACHER rule missing its branch test.
validateMessagePermissions_NoBranch(sender, targetRole, targetBranch) ==
  IF sender.role = "OFFICIAL" THEN TRUE
  ELSE IF sender.role = "TEACHER" THEN targetRole = "STUDENT"
  ELSE IF sender.role = "STUDENT" THEN targetRole = "STUDENT"
  ELSE FALSE

validateMessagePermissions(sender, targetRole, targetBranch) ==
  IF sender.role = "OFFICIAL" THEN TRUE
  ELSE IF sender.role = "TEACHER"
       THEN targetRole = "STUDENT" /\ targetBranch = sender.branch
  ELSE IF sender.role = "STUDENT" THEN targetRole = "STUDENT"
  ELSE FALSE

\* One call of validateMessagePermissions; its arguments and result are
\* recorded in perm.
validate_call(role, branch, targetRole, targetBranch) ==
  /\ perm' = [sender |-> [role |-> role, branch |-> branch],
              targetRole |-> targetRole, targetBranch |-> targetBranch,
              result |-> validateMessagePermissions(
                           [role |-> role, branch |-> branch],
                           targetRole, targetBranch),
              called |-> TRUE]
  /\ UNCHANGED <<storeVars, likeReqs, commentReqs, msgReqs, tog, extVars>>

\* C7: validateMessagePermissions equals the rule table: true for every
\* OFFICIAL sender; for a TEACHER true iff the target role is STUDENT and
\* the target branch equals the sender's branch; for a STUDENT true iff the
\* target role is STUDENT, whatever the branch; false for any other role.
C7_PermissionRuleTable ==
  perm.called =>
    perm.result =
      CASE perm.sender.role = "OFFICIAL" -> TRUE
        [] perm.sender.role = "TEACHER" ->
             (perm.targetRole = "STUDENT" /\ perm.targetBranch = perm.sender.branch)
        [] perm.sender.role = "STUDENT" -> (perm.targetRole = "STUDENT")
        [] OTHER -> FALSE

\* A teacher was permitted to target the students of the teacher's branch.
C7_Witness ==
  /\ perm.called /\ perm.result
  /\ perm.sender = [role |-> "TEACHER", branch |-> "CSE"]
  /\ perm.targetRole = "STUDENT" /\ perm.targetBranch = "CSE"

\* C25: authority is a total order OFFICIAL > TEACHER > STUDENT: whenever a
\* call permits a STUDENT of some branch for a target, the function also
\* permits a TEACHER of the same branch for that target, and whenever a call
\* permits a TEACHER it also permits an OFFICIAL.
C25_AuthorityIsTotalOrder ==
  (perm.called /\ perm.result) =>
    /\ perm.sender.role = "STUDENT" =>
         validateMessagePermissions(
           [role |-> "TEACHER", branch |-> perm.sender.branch],
           perm.targetRole, perm.targetBranch)
    /\ perm.sender.role = "TEACHER" =>
         validateMessagePermissions(
           [role |-> "OFFICIAL", branch |-> perm.sender.branch],
           perm.targetRole, perm.targetBranch)

PermNext ==
  \E role \in AnyRole, branch \in AnyBranch,
     targetRole \in AnyRole, targetBranch \in AnyBranch :
       validate_call(role, branch, targetRole, targetBranch)

SpecPerm == Init /\ [][PermNext]_vars

\* ============================================================= sendMessage
\* Request bodies; content is a non-empty string in all of them.
\* recipientIds is <<>> when the field is absent or empty (the handler
\* treats both alike); "nobody" is the id of no stored user.
TargetRoleInputs == {Null, "STUDENT", "TEACHER", "OFFICIAL"}
TargetBranchInputs == {Null, EmptyStr, "CSE", "IT"}
RecipientIdsInputs ==
  {<<>>, <<"o1">>, <<"t1">>, <<"s1", "s2">>, <<"nobody">>}

\* sendMessageSchema: targetRole is optional and one of STUDENT, TEACHER.
sendMessageSchema(targetRole) == targetRole \in {Null, "STUDENT", "TEACHER"}

\* A filter whose branch is NoFilter has no branch key.
NoFilter == "nofilter"

\* recipientFilter that never copies targetBranch into the filter.
recipientFilter_NoTargetBranch(sender, targetRole, targetBranch) ==
  [role |-> targetRole,
   branch |-> IF sender.role = "OFFICIAL" THEN NoFilter
              ELSE IF sender.role = "TEACHER" THEN sender.branch
              ELSE NoFilter]

\* The `where` of prisma.user.findMany built by sendMessage.
recipientFilter(sender, targetRole, targetBranch) ==
  [role |-> targetRole,
   branch |-> IF Truthy(targetBranch) THEN targetBranch
              ELSE IF sender.role = "OFFICIAL" THEN NoFilter
              ELSE IF sender.role = "TEACHER" THEN sender.branch
              ELSE NoFilter]

\* prisma.user.findMany({ where, select: { id } }) on the table tbl.
findManyUsers(tbl, where) ==
  {id \in DOMAIN tbl :
     /\ tbl[id].role = where.role
     /\ where.branch = NoFilter \/ tbl[id].branch = where.branch}

MsgSlotFree(r) ==
  /\ msgReqs[r].pc = "idle"
  /\ r > 1 => msgReqs[r - 1].pc # "idle"

\* A request record whose handler goes on after an error response (no
\* return after res.status(...).json(...)).
MsgReq_NoReturn(u, targetRole, targetBranch, recipientIds) ==
  [pc |-> "create", user |-> u, sender |-> users[u], targetRole |-> targetRole,
   targetBranch |-> targetBranch, recipientIds |-> recipientIds,
   messageType |-> "INDIVIDUAL", recipients |-> {}, msgId |-> 0, status |-> 0,
   usersAtSend |-> users]

MsgReq(u, targetRole, targetBranch, recipientIds) ==
  [pc |-> "done", user |-> u, sender |-> users[u], targetRole |-> targetRole,
   targetBranch |-> targetBranch, recipientIds |-> recipientIds,
   messageType |-> Null, recipients |-> {}, msgId |-> 0, status |-> 0,
   usersAtSend |-> users]

\* sendMessage resolving a role target before the explicit list.
sendMessage_resolve_RoleFirst(r, u, targetRole, targetBranch, recipientIds) ==
  LET q == MsgReq(u, targetRole, targetBranch, recipientIds) IN
  /\ MsgSlotFree(r)
  /\ u \in DOMAIN users
  /\ msgReqs' = [msgReqs EXCEPT ![r] =
       IF ~sendMessageSchema(targetRole) THEN [q EXCEPT !.status = 400]
       ELSE IF ~validateMessagePermissions(users[u],
                  OrElse(targetRole, "STUDENT"), OrElse(targetBranch, Null))
       THEN [q EXCEPT !.status = 403]
       ELSE IF Truthy(targetRole)
       THEN [q EXCEPT !.pc = "create", !.messageType = "GROUP",
                      !.recipients = findManyUsers(users,
                          recipientFilter(users[u], targetRole, targetBranch))]
       ELSE IF Len(recipientIds) > 0
       THEN [q EXCEPT !.pc = "create", !.messageType = "INDIVIDUAL",
                      !.recipients = Range(recipientIds)]
       ELSE [q EXCEPT !.pc = "create", !.messageType = "INDIVIDUAL"]]
  /\ UNCHANGED <<storeVars, likeReqs, commentReqs, perm, tog, extVars>>

\* sendMessage up to prisma.message.create, by the authenticated user u:
\* schema validation, permission gate, recipient resolution (with
\* prisma.user.findMany for a role target).  usersAtSend records the user
\* table the resolution read.
sendMessage_resolve(r, u, targetRole, targetBranch, recipientIds) ==
  LET q == MsgReq(u, targetRole, targetBranch, recipientIds) IN
  /\ MsgSlotFree(r)
  /\ u \in DOMAIN users
  /\ msgReqs' = [msgReqs EXCEPT ![r] =
       IF ~sendMessageSchema(targetRole) THEN [q EXCEPT !.status = 400]
       ELSE IF ~validateMessagePermissions(users[u],
                  OrElse(targetRole, "STUDENT"), OrElse(targetBranch, Null))
       THEN [q EXCEPT !.status = 403]
       ELSE IF Len(recipientIds) > 0
       THEN [q EXCEPT !.pc = "create", !.messageType = "INDIVIDUAL",
                      !.recipients = Range(recipientIds)]
       ELSE IF Truthy(targetRole)
       THEN [q EXCEPT !.pc = "create", !.messageType = "GROUP",
                      !.recipients = findManyUsers(users,
                          recipientFilter(users[u], targetRole, targetBranch))]
       ELSE [q EXCEPT !.pc = "create", !.messageType = "INDIVIDUAL"]]
  /\ UNCHANGED <<storeVars, likeReqs, commentReqs, perm, tog, extVars>>

\* sendMessage refusing a message nobody receives.
sendMessage_create_EmptyFails(r) ==
  LET q == msgReqs[r] IN
  /\ q.pc = "create"
  /\ IF q.recipients # {}
     THEN /\ messages' = (nextId.message :>
                    [senderId |-> q.user, messageType |-> q.messageType,
                     targetRole |-> OrElse(q.targetRole, Null),
                     targetBranch |-> OrElse(q.targetBranch, Null),
                     isRead |-> FALSE, recipients |-> {}]) @@ messages
          /\ nextId' = [nextId EXCEPT !.message = @ + 1]
          /\ msgReqs' = [msgReqs EXCEPT ![r] =
                 [q EXCEPT !.pc = "connect", !.msgId = nextId.message]]
     ELSE /\ UNCHANGED <<messages, nextId>>
          /\ msgReqs' = [msgReqs EXCEPT ![r] =
                 [q EXCEPT !.pc = "done", !.status = 400]]
  /\ UNCHANGED <<users, posts, comments, likeReqs, commentReqs, perm, tog, extVars>>

\* sendMessage: prisma.message.create; the row has no recipients yet.  With
\* no recipient to attach the handler answers 201 right away.
sendMessage_create(r) ==
  LET q == msgReqs[r] IN
  /\ q.pc = "create"
  /\ messages' = (nextId.message :>
                    [senderId |-> q.user, messageType |-> q.messageType,
                     targetRole |-> OrElse(q.targetRole, Null),
                     targetBranch |-> OrElse(q.targetBranch, Null),
                     isRead |-> FALSE, recipients |-> {}]) @@ messages
  /\ nextId' = [nextId EXCEPT !.message = @ + 1]
  /\ msgReqs' = [msgReqs EXCEPT ![r] =
       IF q.recipients # {}
       THEN [q EXCEPT !.pc = "connect", !.msgId = nextId.message]
       ELSE [q EXCEPT !.pc = "done", !.msgId = nextId.message, !.status = 201]]
  /\ UNCHANGED <<users, posts, comments, likeReqs, commentReqs, perm, tog, extVars>>

\* sendMessage from prisma.message.update (recipients: connect) to the
\* response; connect throws when the message or one of the users is not
\* stored, and the catch block answers 500.
sendMessage_connect(r) ==
  LET q == msgReqs[r] IN
  /\ q.pc = "connect"
  /\ IF q.msgId \in DOMAIN messages /\ q.recipients \subseteq DOMAIN users
     THEN /\ messages' = [messages EXCEPT ![q.msgId].recipients = q.recipients]
          /\ msgReqs' = [msgReqs EXCEPT ![r].pc = "done", ![r].status = 201]
     ELSE /\ UNCHANGED messages
          /\ msgReqs' = [msgReqs EXCEPT ![r].pc = "done", ![r].status = 500]
  /\ UNCHANGED <<users, posts, comments, nextId, likeReqs, commentReqs, perm, tog, extVars>>

\* ------------------------------------------------- sendMessage: properties
\* The requests whose message row is stored.
MsgStored(r) == msgReqs[r].msgId # 0 /\ msgReqs[r].msgId \in DOMAIN messages
MsgRow(r) == messages[msgReqs[r].msgId]

\* Sender s (role and branch at send time) may not address recipient x.
HierarchyBroken(s, x) ==
  \/ s.role = "STUDENT" /\ x.role \in {"TEACHER", "OFFICIAL"}
  \/ s.role = "TEACHER" /\ (x.role # "STUDENT" \/ x.branch # s.branch)

\* C8: no stored message has a STUDENT sender and a TEACHER or OFFICIAL
\* recipient, nor a TEACHER sender and a recipient who is an OFFICIAL, a
\* TEACHER or a STUDENT of another branch (roles and branches at send time).
C8_HierarchyHoldsForStoredMessages ==
  \A r \in MsgReqIds :
    MsgStored(r) =>
      \A x \in MsgRow(r).recipients :
        ~HierarchyBroken(msgReqs[r].sender, msgReqs[r].usersAtSend[x])

\* C9: a completed request of a TEACHER of branch B with targetRole STUDENT,
\* no targetBranch and no recipientIds answered 201 and stored a GROUP
\* message whose recipients are exactly the students of branch B.
C9_TeacherDefaultsToOwnBranch ==
  \A r \in MsgReqIds :
    LET q == msgReqs[r] IN
    (/\ q.pc = "done"
     /\ q.sender.role = "TEACHER" /\ q.sender.branch \in Branches
     /\ q.targetRole = "STUDENT" /\ q.targetBranch = Null
     /\ q.recipientIds = <<>>)
    => /\ q.status = 201
       /\ MsgStored(r)
       /\ MsgRow(r).messageType = "GROUP"
       /\ MsgRow(r).recipients =
            {x \in DOMAIN q.usersAtSend :
               /\ q.usersAtSend[x].role = "STUDENT"
               /\ q.usersAtSend[x].branch = q.sender.branch}

\* C10: a completed request that passed the permission gate, has no
\* recipientIds and has a targetRole answered 201 and stored a GROUP message;
\* when a (non-empty) targetBranch is given, or the sender is an OFFICIAL or
\* a STUDENT, its recipients are exactly the users stored at send time with
\* that role and, when targetBranch is given, that branch.
C10_GroupRecipientsAreTheRoleAndBranch ==
  \A r \in MsgReqIds :
    LET q == msgReqs[r] IN
    (/\ q.pc = "done" /\ q.status \notin {400, 403}
     /\ q.recipientIds = <<>> /\ q.targetRole # Null)
    => /\ q.status = 201
       /\ MsgStored(r)
       /\ MsgRow(r).messageType = "GROUP"
       /\ (Truthy(q.targetBranch) \/ q.sender.role \in {"OFFICIAL", "STUDENT"})
          => MsgRow(r).recipients =
               {x \in DOMAIN q.usersAtSend :
                  /\ q.usersAtSend[x].role = q.targetRole
                  /\ Truthy(q.targetBranch)
                       => q.usersAtSend[x].branch = q.targetBranch}

\* An OFFICIAL's message to all students reached the students of both
\* branches, and a message to the students of one branch only those.
C10_Witness ==
  \E r \in MsgReqIds :
    /\ msgReqs[r].pc = "done" /\ msgReqs[r].status = 201
    /\ msgReqs[r].sender.role = "OFFICIAL"
    /\ msgReqs[r].recipientIds = <<>> /\ msgReqs[r].targetRole = "STUDENT"
    /\ \/ msgReqs[r].targetBranch = Null /\ MsgRow(r).recipients = {"s1", "s2"}
       \/ msgReqs[r].targetBranch = "IT" /\ MsgRow(r).recipients = {"s2"}

\* The requests with an explicit recipient list that passed the gate.
ExplicitReq(r) ==
  /\ msgReqs[r].pc \in {"create", "connect", "done"}
  /\ msgReqs[r].status \notin {400, 403}
  /\ Len(msgReqs[r].recipientIds) > 0

EmptyGroupReq(r) ==
  /\ msgReqs[r].pc = "done"
  /\ msgReqs[r].messageType = "GROUP"
  /\ msgReqs[r].recipients = {}

\* C12: a GROUP request whose target matches no stored user is not an
\* error: it answers 201 and its message is stored with no recipients.
C12_EmptyGroupIsStored ==
  \A r \in MsgReqIds :
    EmptyGroupReq(r)
    => /\ msgReqs[r].status = 201
       /\ MsgStored(r)
       /\ MsgRow(r).messageType = "GROUP"
       /\ MsgRow(r).recipients = {}

\* An OFFICIAL addressed the teachers of a branch that has none.
C12_Witness ==
  \E r \in MsgReqIds :
    /\ EmptyGroupReq(r)
    /\ msgReqs[r].sender.role = "OFFICIAL"
    /\ msgReqs[r].targetRole = "TEACHER" /\ msgReqs[r].targetBranch = "IT"
    /\ msgReqs[r].status = 201
    /\ MsgStored(r)

\* The notifications that refer to message m.
NotifsOfMessage(m) ==
  {n \in DOMAIN notifs : notifs[n].referenceId = <<"message", m>>}

\* C14: a GROUP request that answered 201 left exactly one notification per
\* recipient of its message, each referring to the message.
C14_OneNotificationPerRecipient ==
  \A r \in MsgReqIds :
    (/\ msgReqs[r].pc = "done" /\ msgReqs[r].status = 201
     /\ msgReqs[r].messageType = "GROUP" /\ MsgStored(r))
    => /\ Cardinality(NotifsOfMessage(msgReqs[r].msgId))
            = Cardinality(MsgRow(r).recipients)
       /\ \A x \in MsgRow(r).recipients :
            \E n \in NotifsOfMessage(msgReqs[r].msgId) : notifs[n].userId = x

\* C21: a request answered 400 (validation) or 403 (permission gate) is
\* over, owns no message row, and the stored messages are exactly the rows
\* created by the other requests: nothing was stored or attached for it.
C21_RejectedSendStoresNothing ==
  /\ \A r \in MsgReqIds :
       msgReqs[r].status \in {400, 403}
       => msgReqs[r].pc = "done" /\ msgReqs[r].msgId = 0
  /\ DOMAIN messages =
       {msgReqs[r].msgId : r \in {x \in MsgReqIds : msgReqs[x].status \notin {400, 403}
                                                   /\ msgReqs[x].msgId # 0}}

\* A TEACHER's request to the students of another branch was refused by the
\* gate and no message is stored.
C21_Witness ==
  \E r \in MsgReqIds :
    /\ msgReqs[r].pc = "done" /\ msgReqs[r].status = 403
    /\ msgReqs[r].sender.role = "TEACHER"
    /\ msgReqs[r].targetRole = "STUDENT" /\ msgReqs[r].targetBranch = "IT"
    /\ DOMAIN messages = {}

\* C22: a request that names no target (no recipientIds, no targetRole) is
\* answered 400 and no message row is created for it.
C22_NoTargetIsValidationError ==
  \A r \in MsgReqIds :
    (/\ msgReqs[r].pc # "idle"
     /\ msgReqs[r].recipientIds = <<>>
     /\ ~Truthy(msgReqs[r].targetRole))
    => /\ msgReqs[r].pc = "done" /\ msgReqs[r].status = 400
       /\ msgReqs[r].msgId = 0

\* C26: sendMessage is all-or-nothing with respect to recipients: in every
\* state, a message row stored by a request has exactly the recipients the
\* request resolved for it, also after the step that attaches them failed.
C26_StoredMessageHasItsRecipients ==
  \A r \in MsgReqIds :
    MsgStored(r) => MsgRow(r).recipients = msgReqs[r].recipients

MsgNext ==
  \/ \E r \in MsgReqIds, u \in UserIds, targetRole \in TargetRoleInputs,
        targetBranch \in TargetBranchInputs, recipientIds \in RecipientIdsInputs :
          sendMessage_resolve(r, u, targetRole, targetBranch, recipientIds)
  \/ \E r \in MsgReqIds : sendMessage_create(r)
  \/ \E r \in MsgReqIds : sendMessage_connect(r)

SpecMsg == Init /\ [][MsgNext]_vars

\* ======================================================= serial like toggle
\* The handlers and mutations run one at a time on a single row.
ToggleUsers == {"s1", "s2", "t1"}

\* The likedBy arrays without duplicates over ToggleUsers.
StartLikedBy ==
  {s \in UNION {[1..n -> ToggleUsers] : n \in 0..Cardinality(ToggleUsers)} :
     NoDuplicates(s)}

\* The patch of the Convex mutations likePost and likeComment, computed from
\* the row the mutation read in the same transaction.
convexLikePatch(row, u) ==
  IF Includes(row.likedBy, u)
  THEN [row EXCEPT !.likes = row.likes - 1,
                   !.likedBy = FilterOut(row.likedBy, u)]
  ELSE [row EXCEPT !.likes = row.likes + 1,
                   !.likedBy = Append(row.likedBy, u)]

\* A post or a comment with likes == |likedBy| and no duplicate id, and the
\* implementation (REST handler or Convex mutation) that will toggle it.
InitToggle ==
  /\ users = SeedUsers
  /\ posts = (1 :> [NewPost("s1") EXCEPT !.commentCount = 1])
  /\ comments = (1 :> NewComment(1, "s2"))
  /\ messages = <<>>
  /\ nextId = [comment |-> 2, message |-> 1, notification |-> 1]
  /\ notifs = <<>>
  /\ convex = NoConvex
  /\ reqs = [r \in ReqIds |-> NoReq]
  /\ conv = NoConv
  /\ likeReqs = [r \in LikeReqIds |-> NoLikeReq]
  /\ commentReqs = [r \in CommentReqIds |-> NoCommentReq]
  /\ msgReqs = [r \in MsgSlots |-> NoMsgReq]
  /\ perm = NoPerm
  /\ \E impl \in {"rest", "convex"}, kind \in {"post", "comment"},
        s \in StartLikedBy :
       LET row == IF kind = "post"
                  THEN [NewPost("s1") EXCEPT !.likes = Len(s), !.likedBy = s]
                  ELSE [NewComment(1, "s2") EXCEPT !.likes = Len(s), !.likedBy = s]
       IN tog = [impl |-> impl, kind |-> kind, start |-> row, row |-> row,
                 trace |-> <<>>]

\* The run can take one more toggle by the implementation impl on a row of
\* the given kind.
TogEnabled(kind, impl) ==
  /\ tog.kind = kind /\ tog.impl = impl
  /\ Len(tog.trace) < MaxToggles

\* The REST handler likePost with no other request between its findUnique
\* and its update: the update is computed from, and applied to, the row
\* just read.
likePost_serial(u) ==
  /\ TogEnabled("post", "rest")
  /\ tog' = [tog EXCEPT !.row = LikeUpdate(@, @.likedBy, u),
                        !.trace = Append(@, u)]
  /\ UNCHANGED <<storeVars, likeReqs, commentReqs, msgReqs, perm, extVars>>

\* The REST handler likeComment, likewise.
likeComment_serial(u) ==
  /\ TogEnabled("comment", "rest")
  /\ tog' = [tog EXCEPT !.row = LikeUpdate(@, @.likedBy, u),
                        !.trace = Append(@, u)]
  /\ UNCHANGED <<storeVars, likeReqs, commentReqs, msgReqs, perm, extVars>>

\* The Convex mutation likePost (one transaction).
convex_likePost(u) ==
  /\ TogEnabled("post", "convex")
  /\ tog' = [tog EXCEPT !.row = convexLikePatch(@, u), !.trace = Append(@, u)]
  /\ UNCHANGED <<storeVars, likeReqs, commentReqs, msgReqs, perm, extVars>>

\* The Convex mutation likeComment (one transaction).
convex_likeComment(u) ==
  /\ TogEnabled("comment", "convex")
  /\ tog' = [tog EXCEPT !.row = convexLikePatch(@, u), !.trace = Append(@, u)]
  /\ UNCHANGED <<storeVars, likeReqs, commentReqs, msgReqs, perm, extVars>>

\* C4: run without interleaving from a row with likes == |likedBy| and no
\* duplicate id, toggling the same user twice restores likes and the members
\* of likedBy (again without duplicates), and toggling u1 then u2, neither a
\* member, adds both to likedBy and raises likes by 2.
C4_SerialToggleAlternates ==
  /\ (Len(tog.trace) = 2 /\ tog.trace[1] = tog.trace[2])
     => /\ tog.row.likes = tog.start.likes
        /\ Range(tog.row.likedBy) = Range(tog.start.likedBy)
        /\ NoDuplicates(tog.row.likedBy)
  /\ (/\ Len(tog.trace) = 2 /\ tog.trace[1] # tog.trace[2]
      /\ Range(tog.trace) \cap Range(tog.start.likedBy) = {})
     => /\ tog.row.likes = tog.start.likes + 2
        /\ Range(tog.row.likedBy) = Range(tog.start.likedBy) \cup Range(tog.trace)
        /\ NoDuplicates(tog.row.likedBy)

\* A member unliked and liked again, and two non-members liked in turn.
C4_Witness ==
  /\ Len(tog.trace) = 2
  /\ \/ /\ tog.trace[1] = tog.trace[2]
        /\ tog.trace[1] \in Range(tog.start.likedBy)
        /\ tog.start.likes = 2
     \/ /\ tog.trace[1] # tog.trace[2]
        /\ Range(tog.trace) \cap Range(tog.start.likedBy) = {}
        /\ tog.row.likes = 3

ToggleNext ==
  \/ \E u \in ToggleUsers : likePost_serial(u)
  \/ \E u \in ToggleUsers : likeComment_serial(u)
  \/ \E u \in ToggleUsers : convex_likePost(u)
  \/ \E u \in ToggleUsers : convex_likeComment(u)

SpecToggle == InitToggle /\ [][ToggleNext]_vars

\* ============================================================ notifications
\* notification.controller.ts over prisma.notification, and the Convex
\* createNotification mutation over the Convex notifications table.
NotifUsers == {"s1", "s2"}
NotifIds == 1..MaxReqs
\* What a notification refers to: the entity kind and its id.
NotifRefs == {<<"message", 1>>}

ReqSlotFree(r) ==
  /\ reqs[r].pc = "idle"
  /\ r > 1 => reqs[r - 1].pc # "idle"

Req(op, u, id) == [NoReq EXCEPT !.op = op, !.user = u, !.id = id]
Answer(q, status) == [q EXCEPT !.pc = "done", !.status = status]

\* createNotification without the try/catch around the store write.
createNotification_Throws(r, userId, ref, ok) ==
  /\ ReqSlotFree(r)
  /\ IF ok
     THEN /\ notifs' = (nextId.notification :>
                 [userId |-> userId, type |-> ref[1], referenceId |-> ref,
                  isRead |-> FALSE]) @@ notifs
          /\ nextId' = [nextId EXCEPT !.notification = @ + 1]
     ELSE UNCHANGED <<notifs, nextId>>
  /\ reqs' = [reqs EXCEPT ![r] =
       [Req("createNotification", userId, IF ok THEN nextId.notification ELSE 0)
          EXCEPT !.pc = "done", !.storeOk = ok,
                 !.outcome = IF ok THEN "returned" ELSE "threw"]]
  /\ UNCHANGED <<users, posts, comments, messages, oldReqVars, convex, conv>>

\* createNotification(userId, type, referenceId, content), called by server
\* code: prisma.notification.create succeeds (ok) or throws; the catch block
\* logs and the promise resolves either way.
createNotification(r, userId, ref, ok) ==
  /\ ReqSlotFree(r)
  /\ IF ok
     THEN /\ notifs' = (nextId.notification :>
                 [userId |-> userId, type |-> ref[1], referenceId |-> ref,
                  isRead |-> FALSE]) @@ notifs
          /\ nextId' = [nextId EXCEPT !.notification = @ + 1]
     ELSE UNCHANGED <<notifs, nextId>>
  /\ reqs' = [reqs EXCEPT ![r] =
       [Req("createNotification", userId, IF ok THEN nextId.notification ELSE 0)
          EXCEPT !.pc = "done", !.storeOk = ok, !.outcome = "returned"]]
  /\ UNCHANGED <<users, posts, comments, messages, oldReqVars, convex, conv>>

\* markNotificationAsRead up to prisma.notification.update.
markNotificationAsRead_findUnique(r, u, id) ==
  LET q == Req("markNotificationAsRead", u, id) IN
  /\ ReqSlotFree(r)
  /\ reqs' = [reqs EXCEPT ![r] =
       IF id \notin DOMAIN notifs THEN Answer(q, 404)
       ELSE IF notifs[id].userId # u THEN Answer(q, 403)
       ELSE [q EXCEPT !.pc = "update"]]
  /\ UNCHANGED <<storeVars, oldReqVars, notifs, convex, conv>>

\* markNotificationAsRead: prisma.notification.update, which throws when the
\* row is gone.
markNotificationAsRead_update(r) ==
  LET q == reqs[r] IN
  /\ q.op = "markNotificationAsRead" /\ q.pc = "update"
  /\ IF q.id \in DOMAIN notifs
     THEN /\ notifs' = [notifs EXCEPT ![q.id].isRead = TRUE]
          /\ reqs' = [reqs EXCEPT ![r] = Answer(q, 200)]
     ELSE /\ UNCHANGED notifs
          /\ reqs' = [reqs EXCEPT ![r] = Answer(q, 500)]
  /\ UNCHANGED <<storeVars, oldReqVars, convex, conv>>

\* markAllNotificationsAsRead marking every unread notification.
markAllNotificationsAsRead_AllUsers(r, u) ==
  /\ ReqSlotFree(r)
  /\ notifs' = [n \in DOMAIN notifs |->
       IF ~notifs[n].isRead
       THEN [notifs[n] EXCEPT !.isRead = TRUE] ELSE notifs[n]]
  /\ reqs' = [reqs EXCEPT ![r] = Answer(Req("markAllNotificationsAsRead", u, 0), 200)]
  /\ UNCHANGED <<storeVars, oldReqVars, convex, conv>>

\* markAllNotificationsAsRead: one updateMany where {userId, isRead: false}.
markAllNotificationsAsRead(r, u) ==
  /\ ReqSlotFree(r)
  /\ notifs' = [n \in DOMAIN notifs |->
       IF notifs[n].userId = u /\ ~notifs[n].isRead
       THEN [notifs[n] EXCEPT !.isRead = TRUE] ELSE notifs[n]]
  /\ reqs' = [reqs EXCEPT ![r] = Answer(Req("markAllNotificationsAsRead", u, 0), 200)]
  /\ UNCHANGED <<storeVars, oldReqVars, convex, conv>>

\* deleteNotification up to prisma.notification.delete.
deleteNotification_findUnique(r, u, id) ==
  LET q == Req("deleteNotification", u, id) IN
  /\ ReqSlotFree(r)
  /\ reqs' = [reqs EXCEPT ![r] =
       IF id \notin DOMAIN notifs THEN Answer(q, 404)
       ELSE IF notifs[id].userId # u THEN Answer(q, 403)
       ELSE [q EXCEPT !.pc = "delete"]]
  /\ UNCHANGED <<storeVars, oldReqVars, notifs, convex, conv>>

\* deleteNotification: prisma.notification.delete, which throws when the row
\* is gone.
deleteNotification_delete(r) ==
  LET q == reqs[r] IN
  /\ q.op = "deleteNotification" /\ q.pc = "delete"
  /\ IF q.id \in DOMAIN notifs
     THEN /\ notifs' = [n \in DOMAIN notifs \ {q.id} |-> notifs[n]]
          /\ reqs' = [reqs EXCEPT ![r] = Answer(q, 200)]
     ELSE /\ UNCHANGED notifs
          /\ reqs' = [reqs EXCEPT ![r] = Answer(q, 500)]
  /\ UNCHANGED <<storeVars, oldReqVars, convex, conv>>

\* The Convex mutation createNotification, a public function any client
\* calls with arguments of its choice; calledAs records the function the
\* client invoked.
convex_createNotification(userId, ref) ==
  /\ Len(convex.notifications) < MaxConvexNotifs
  /\ convex' = [convex EXCEPT !.notifications = Append(@,
       [userId |-> userId, type |-> ref[1], referenceId |-> ref,
        isRead |-> FALSE, calledAs |-> "createNotification"])]
  /\ UNCHANGED <<storeVars, oldReqVars, notifs, reqs, conv>>

\* ------------------------------------------------ notifications: properties
\* C15: a createNotification call whose store write fails still returns
\* normally, and that step changes no stored entity.
C15_CreateNotificationSwallowsFailure ==
  [][\A r \in ReqIds :
       (/\ reqs[r].pc = "idle"
        /\ reqs'[r].op = "createNotification"
        /\ ~reqs'[r].storeOk)
       => /\ reqs'[r].pc = "done"
          /\ reqs'[r].outcome = "returned"
          /\ UNCHANGED <<storeVars, notifs, convex>>]_vars

\* A call failed and returned, next to a call that stored its notification.
C15_Witness ==
  \E r1, r2 \in ReqIds :
    /\ reqs[r1].op = "createNotification" /\ ~reqs[r1].storeOk
    /\ reqs[r1].outcome = "returned"
    /\ reqs[r2].op = "createNotification" /\ reqs[r2].storeOk
    /\ reqs[r2].id \in DOMAIN notifs

\* The functions whose side effect a notification may be.
NotifyingMutations ==
  {"sendMessage", "createPost", "createComment", "likePost", "likeComment"}

\* C16: every stored notification was written during a message, post,
\* comment or like mutation (REST: by the server-side createNotification
\* helper, which no route exposes), never by a call a client makes for the
\* notification alone.
C16_NotificationsOnlyFromMutations ==
  /\ \A n \in DOMAIN notifs :
       \E r \in ReqIds : reqs[r].op = "createNotification" /\ reqs[r].id = n
  /\ \A i \in 1..Len(convex.notifications) :
       convex.notifications[i].calledAs \in NotifyingMutations

\* Notification m is removed or rewritten by the step.
NotifChanged(m) == m \notin DOMAIN notifs' \/ notifs'[m] # notifs[m]

\* C17: a step changes a stored notification m only on behalf of a request
\* of m's owner, and a markNotificationAsRead or deleteNotification request
\* only changes the notification it names; marking as read leaves
\* everything but isRead as it was.
C17_NotificationStateIsIndependent ==
  [][\A m \in DOMAIN notifs :
       NotifChanged(m)
       => \E r \in ReqIds :
            /\ reqs'[r] # reqs[r]
            /\ reqs'[r].user = notifs[m].userId
            /\ \/ /\ reqs'[r].op = "markAllNotificationsAsRead"
                  /\ m \in DOMAIN notifs'
                  /\ notifs'[m] = [notifs[m] EXCEPT !.isRead = TRUE]
               \/ /\ reqs'[r].op = "markNotificationAsRead"
                  /\ reqs'[r].id = m
                  /\ m \in DOMAIN notifs'
                  /\ notifs'[m] = [notifs[m] EXCEPT !.isRead = TRUE]
               \/ /\ reqs'[r].op = "deleteNotification"
                  /\ reqs'[r].id = m
                  /\ m \notin DOMAIN notifs']_vars

\* s1 marked all of its notifications as read while s2 has an unread one.
C17_Witness ==
  /\ \E r \in ReqIds :
       /\ reqs[r].op = "markAllNotificationsAsRead"
       /\ reqs[r].user = "s1" /\ reqs[r].status = 200
  /\ \E n \in DOMAIN notifs : notifs[n].userId = "s1" /\ notifs[n].isRead
  /\ \E n \in DOMAIN notifs : notifs[n].userId = "s2" /\ ~notifs[n].isRead

NotifNext ==
  \/ \E r \in ReqIds, userId \in NotifUsers, ref \in NotifRefs, ok \in BOOLEAN :
       createNotification(r, userId, ref, ok)
  \/ \E r \in ReqIds, u \in NotifUsers, id \in NotifIds :
       markNotificationAsRead_findUnique(r, u, id)
  \/ \E r \in ReqIds : markNotificationAsRead_update(r)
  \/ \E r \in ReqIds, u \in NotifUsers : markAllNotificationsAsRead(r, u)
  \/ \E r \in ReqIds, u \in NotifUsers, id \in NotifIds :
       deleteNotification_findUnique(r, u, id)
  \/ \E r \in ReqIds : deleteNotification_delete(r)
  \/ \E userId \in NotifUsers, ref \in NotifRefs :
       convex_createNotification(userId, ref)

SpecNotif == Init /\ [][NotifNext]_vars

\* ================================================= recipients after sending
\* sendMessage next to the handlers that later touch users and messages:
\* updateUser, register and markMessageAsRead.
FrozenSenders == {"o1"}
FrozenRecipientIds == {<<>>}
\* (authenticated user, user id of the path) of an updateUser request.
UpdateUserInputs == {<<"s1", "s1">>}
\* The id of the user a register request creates (one per email address).
NewUserIds == {"n1"}
MessageIds == {1}

\* A field the request body leaves out: Prisma writes nothing for it.
Undefined == "undefined"
WriteOver(old, v) == IF v = Undefined THEN old ELSE v

\* updateUser up to prisma.user.update; arg is the body (position, branch).
updateUser_findUnique(r, u, id, position, branch) ==
  LET q == [Req("updateUser", u, id)
              EXCEPT !.arg = [position |-> position, branch |-> branch]] IN
  /\ ReqSlotFree(r)
  /\ u \in DOMAIN users
  /\ reqs' = [reqs EXCEPT ![r] =
       IF id \notin DOMAIN users THEN Answer(q, 404)
       ELSE IF u # id /\ users[u].role # "OFFICIAL" THEN Answer(q, 403)
       ELSE [q EXCEPT !.pc = "update", !.outcome = users[id]]]
  /\ UNCHANGED <<storeVars, oldReqVars, notifs, convex, conv>>

\* updateUser that also takes a role from the body.
updateUser_update_WritesRole(r) ==
  LET q == reqs[r]
      existingUser == q.outcome IN
  /\ q.op = "updateUser" /\ q.pc = "update"
  /\ IF q.id \in DOMAIN users
     THEN /\ users' = [users EXCEPT
                 ![q.id].role = "TEACHER",
                 ![q.id].position =
                    IF existingUser.role = "OFFICIAL"
                    THEN WriteOver(@, q.arg.position) ELSE existingUser.position,
                 ![q.id].branch =
                    IF existingUser.role = "OFFICIAL"
                    THEN existingUser.branch ELSE WriteOver(@, q.arg.branch)]
          /\ reqs' = [reqs EXCEPT ![r] = Answer(q, 200)]
     ELSE /\ UNCHANGED users
          /\ reqs' = [reqs EXCEPT ![r] = Answer(q, 500)]
  /\ UNCHANGED <<posts, comments, messages, nextId, oldReqVars, notifs, convex, conv>>

\* updateUser: prisma.user.update with position and branch computed from
\* the row read before (kept in outcome); role is not among the written
\* fields.
updateUser_update(r) ==
  LET q == reqs[r]
      existingUser == q.outcome IN
  /\ q.op = "updateUser" /\ q.pc = "update"
  /\ IF q.id \in DOMAIN users
     THEN /\ users' = [users EXCEPT
                 ![q.id].position =
                    IF existingUser.role = "OFFICIAL"
                    THEN WriteOver(@, q.arg.position) ELSE existingUser.position,
                 ![q.id].branch =
                    IF existingUser.role = "OFFICIAL"
                    THEN existingUser.branch ELSE WriteOver(@, q.arg.branch)]
          /\ reqs' = [reqs EXCEPT ![r] = Answer(q, 200)]
     ELSE /\ UNCHANGED users
          /\ reqs' = [reqs EXCEPT ![r] = Answer(q, 500)]
  /\ UNCHANGED <<posts, comments, messages, nextId, oldReqVars, notifs, convex, conv>>

\* register storing position and branch as the body gives them.
register_KeepsBoth(r, id, role, position, branch) ==
  LET q == [Req("register", id, 0) EXCEPT !.arg = role] IN
  /\ ReqSlotFree(r)
  /\ IF id \in DOMAIN users
     THEN /\ UNCHANGED users
          /\ reqs' = [reqs EXCEPT ![r] = Answer(q, 409)]
     ELSE /\ users' = (id :> [role |-> role,
                              position |-> WriteOver(Null, position),
                              branch |-> WriteOver(Null, branch)])
                      @@ users
          /\ reqs' = [reqs EXCEPT ![r] = Answer(q, 201)]
  /\ UNCHANGED <<posts, comments, messages, nextId, oldReqVars, notifs, convex, conv>>

\* register: 409 when the email address (the id here) is taken, else
\* prisma.user.create; an OFFICIAL is stored without branch, the others
\* without position (a field left out is stored as null).
register(r, id, role, position, branch) ==
  LET q == [Req("register", id, 0) EXCEPT !.arg = role] IN
  /\ ReqSlotFree(r)
  /\ IF id \in DOMAIN users
     THEN /\ UNCHANGED users
          /\ reqs' = [reqs EXCEPT ![r] = Answer(q, 409)]
     ELSE /\ users' = (id :> [role |-> role,
                              position |-> IF role = "OFFICIAL"
                                           THEN WriteOver(Null, position) ELSE Null,
                              branch |-> IF role = "OFFICIAL"
                                         THEN Null ELSE WriteOver(Null, branch)])
                      @@ users
          /\ reqs' = [reqs EXCEPT ![r] = Answer(q, 201)]
  /\ UNCHANGED <<posts, comments, messages, nextId, oldReqVars, notifs, convex, conv>>

\* markMessageAsRead up to prisma.message.update.
\* markMessageAsRead without the recipient check.
markMessageAsRead_findUnique_AnyUser(r, u, id) ==
  LET q == Req("markMessageAsRead", u, id) IN
  /\ ReqSlotFree(r)
  /\ reqs' = [reqs EXCEPT ![r] =
       IF id \notin DOMAIN messages THEN Answer(q, 404)
       ELSE [q EXCEPT !.pc = "update"]]
  /\ UNCHANGED <<storeVars, oldReqVars, notifs, convex, conv>>

markMessageAsRead_findUnique(r, u, id) ==
  LET q == Req("markMessageAsRead", u, id) IN
  /\ ReqSlotFree(r)
  /\ reqs' = [reqs EXCEPT ![r] =
       IF id \notin DOMAIN messages THEN Answer(q, 404)
       ELSE IF u \notin messages[id].recipients THEN Answer(q, 403)
       ELSE [q EXCEPT !.pc = "update"]]
  /\ UNCHANGED <<storeVars, oldReqVars, notifs, convex, conv>>

\* markMessageAsRead taking the reader off the message.
markMessageAsRead_update_DropsReader(r) ==
  LET q == reqs[r] IN
  /\ q.op = "markMessageAsRead" /\ q.pc = "update"
  /\ IF q.id \in DOMAIN messages
     THEN /\ messages' = [messages EXCEPT ![q.id].isRead = TRUE,
                                          ![q.id].recipients = @ \ {q.user}]
          /\ reqs' = [reqs EXCEPT ![r] = Answer(q, 200)]
     ELSE /\ UNCHANGED messages
          /\ reqs' = [reqs EXCEPT ![r] = Answer(q, 500)]
  /\ UNCHANGED <<users, posts, comments, nextId, oldReqVars, notifs, convex, conv>>

\* markMessageAsRead: prisma.message.update {isRead: true}, which throws
\* when the message is gone.
markMessageAsRead_update(r) ==
  LET q == reqs[r] IN
  /\ q.op = "markMessageAsRead" /\ q.pc = "update"
  /\ IF q.id \in DOMAIN messages
     THEN /\ messages' = [messages EXCEPT ![q.id].isRead = TRUE]
          /\ reqs' = [reqs EXCEPT ![r] = Answer(q, 200)]
     ELSE /\ UNCHANGED messages
          /\ reqs' = [reqs EXCEPT ![r] = Answer(q, 500)]
  /\ UNCHANGED <<users, posts, comments, nextId, oldReqVars, notifs, convex, conv>>

\* C13: once a sendMessage request has completed, no step changes the
\* recipient set of the message it stored: not another sendMessage, not an
\* updateUser that moves a recipient to another branch, not the
\* registration of a user that matches the target, not markMessageAsRead.
C13_RecipientsFrozenAfterSend ==
  [][\A r \in MsgSlots :
       (msgReqs[r].pc = "done" /\ MsgStored(r))
       => /\ msgReqs[r].msgId \in DOMAIN messages'
          /\ messages'[msgReqs[r].msgId].recipients = MsgRow(r).recipients]_vars

\* A message to the CSE students reached s1; since then s1 moved to IT, a
\* new CSE student registered and s1 marked the message as read.
C13_Witness ==
  \E r \in MsgSlots :
    /\ msgReqs[r].pc = "done" /\ msgReqs[r].status = 201
    /\ msgReqs[r].targetRole = "STUDENT" /\ msgReqs[r].targetBranch = "CSE"
    /\ MsgStored(r)
    /\ MsgRow(r).recipients = {"s1"}
    /\ MsgRow(r).isRead
    /\ users["s1"].branch = "IT"
    /\ "n1" \in DOMAIN users
    /\ users["n1"] = [role |-> "STUDENT", position |-> Null, branch |-> "CSE"]

FrozenNext ==
  \/ \E r \in MsgSlots, u \in FrozenSenders, recipientIds \in FrozenRecipientIds :
       sendMessage_resolve(r, u, "STUDENT", "CSE", recipientIds)
  \/ \E r \in MsgSlots : sendMessage_create(r)
  \/ \E r \in MsgSlots : sendMessage_connect(r)
  \/ \E r \in ReqIds, i \in UpdateUserInputs :
       updateUser_findUnique(r, i[1], i[2], Undefined, "IT")
  \/ \E r \in ReqIds : updateUser_update(r)
  \/ \E r \in ReqIds, id \in NewUserIds :
       register(r, id, "STUDENT", Undefined, "CSE")
  \/ \E r \in ReqIds, id \in MessageIds :
       markMessageAsRead_findUnique(r, "s1", id)
  \/ \E r \in ReqIds : markMessageAsRead_update(r)

SpecFrozen == Init /\ [][FrozenNext]_vars

\* ============================================ denied and not-found requests
\* The owner-checked handlers of posts, comments, messages and
\* notifications on a store that holds one row of each.
\* A run receives MaxDenied requests in all; a split says how many of them
\* go to the like routes, the comment routes and the other routes, and the
\* request slots beyond it stay closed.
DeniedSplits ==
  {sp \in [{"reqs", "like", "comment"} -> 0..MaxDenied] :
     sp.reqs + sp.like + sp.comment = MaxDenied}
OpenUpTo(n, r, idle) == IF r <= n THEN idle ELSE [idle EXCEPT !.pc = "closed"]

InitDenied ==
  /\ users = SeedUsers
  /\ posts = (1 :> [NewPost("s1") EXCEPT !.commentCount = 1])
  /\ comments = (1 :> NewComment(1, "s2"))
  /\ messages = (1 :> [senderId |-> "o1", messageType |-> "GROUP",
                       targetRole |-> "STUDENT", targetBranch |-> Null,
                       isRead |-> FALSE, recipients |-> {"s1", "s2"}])
  /\ notifs = (1 :> [userId |-> "s1", type |-> "message",
                     referenceId |-> <<"message", 1>>, isRead |-> FALSE])
  /\ nextId = [comment |-> 2, message |-> 2, notification |-> 2]
  /\ convex = NoConvex
  /\ conv = NoConv
  /\ \E sp \in DeniedSplits :
       /\ reqs = [r \in ReqIds |-> OpenUpTo(sp.reqs, r, NoReq)]
       /\ likeReqs = [r \in LikeReqIds |-> OpenUpTo(sp.like, r, NoLikeReq)]
       /\ commentReqs = [r \in CommentReqIds |-> OpenUpTo(sp.comment, r, NoCommentReq)]
  /\ msgReqs = [r \in MsgSlots |-> NoMsgReq]
  /\ perm = NoPerm
  /\ tog = NoTog

\* updatePost up to prisma.post.update; arg is the content of the body.
updatePost_findUnique(r, u, id) ==
  LET q == [Req("updatePost", u, id) EXCEPT !.arg = "c1"] IN
  /\ ReqSlotFree(r)
  /\ reqs' = [reqs EXCEPT ![r] =
       IF id \notin DOMAIN posts THEN Answer(q, 404)
       ELSE IF posts[id].authorId # u THEN Answer(q, 403)
       ELSE [q EXCEPT !.pc = "update"]]
  /\ UNCHANGED <<storeVars, oldReqVars, notifs, convex, conv>>

\* updatePost: prisma.post.update {content}.
updatePost_update(r) ==
  LET q == reqs[r] IN
  /\ q.op = "updatePost" /\ q.pc = "update"
  /\ IF q.id \in DOMAIN posts
     THEN /\ posts' = [posts EXCEPT ![q.id].content = q.arg]
          /\ reqs' = [reqs EXCEPT ![r] = Answer(q, 200)]
     ELSE /\ UNCHANGED posts
          /\ reqs' = [reqs EXCEPT ![r] = Answer(q, 500)]
  /\ UNCHANGED <<users, comments, messages, nextId, oldReqVars, notifs, convex, conv>>

\* deletePost deleting the post before it looks at the author.
deletePost_findUnique_DeletesFirst(r, u, id) ==
  LET q == Req("deletePost", u, id) IN
  /\ ReqSlotFree(r)
  /\ reqs' = [reqs EXCEPT ![r] =
       IF id \notin DOMAIN posts THEN Answer(q, 404)
       ELSE IF posts[id].authorId # u THEN Answer(q, 403)
       ELSE [q EXCEPT !.pc = "delete"]]
  /\ posts' = [p \in DOMAIN posts \ {id} |-> posts[p]]
  /\ UNCHANGED <<users, comments, messages, nextId, oldReqVars, notifs, convex, conv>>

\* deletePost up to prisma.post.delete.
deletePost_findUnique(r, u, id) ==
  LET q == Req("deletePost", u, id) IN
  /\ ReqSlotFree(r)
  /\ reqs' = [reqs EXCEPT ![r] =
       IF id \notin DOMAIN posts THEN Answer(q, 404)
       ELSE IF posts[id].authorId # u THEN Answer(q, 403)
       ELSE [q EXCEPT !.pc = "delete"]]
  /\ UNCHANGED <<storeVars, oldReqVars, notifs, convex, conv>>

\* deletePost: prisma.post.delete.  The referential action of the comments'
\* relation is set in the Prisma schema: either the post's comments go with
\* it (cascade) or the delete of a post that has comments throws.
deletePost_delete(r, cascade) ==
  LET q == reqs[r] IN
  /\ q.op = "deletePost" /\ q.pc = "delete"
  /\ IF q.id \in DOMAIN posts /\ (cascade \/ CommentRowsOf(q.id) = {})
     THEN /\ posts' = [p \in DOMAIN posts \ {q.id} |-> posts[p]]
          /\ comments' = [c \in DOMAIN comments \ CommentRowsOf(q.id) |-> comments[c]]
          /\ reqs' = [reqs EXCEPT ![r] = Answer(q, 200)]
     ELSE /\ UNCHANGED <<posts, comments>>
          /\ reqs' = [reqs EXCEPT ![r] = Answer(q, 500)]
  /\ UNCHANGED <<users, messages, nextId, oldReqVars, notifs, convex, conv>>

\* updateComment up to prisma.comment.update.
updateComment_findUnique(r, u, id) ==
  LET q == [Req("updateComment", u, id) EXCEPT !.arg = "c1"] IN
  /\ ReqSlotFree(r)
  /\ reqs' = [reqs EXCEPT ![r] =
       IF id \notin DOMAIN comments THEN Answer(q, 404)
       ELSE IF comments[id].authorId # u THEN Answer(q, 403)
       ELSE [q EXCEPT !.pc = "update"]]
  /\ UNCHANGED <<storeVars, oldReqVars, notifs, convex, conv>>

\* updateComment: prisma.comment.update {content}.
updateComment_update(r) ==
  LET q == reqs[r] IN
  /\ q.op = "updateComment" /\ q.pc = "update"
  /\ IF q.id \in DOMAIN comments
     THEN /\ comments' = [comments EXCEPT ![q.id].content = q.arg]
          /\ reqs' = [reqs EXCEPT ![r] = Answer(q, 200)]
     ELSE /\ UNCHANGED comments
          /\ reqs' = [reqs EXCEPT ![r] = Answer(q, 500)]
  /\ UNCHANGED <<users, posts, messages, nextId, oldReqVars, notifs, convex, conv>>

\* deleteMessage up to prisma.message.delete.
deleteMessage_findUnique(r, u, id) ==
  LET q == Req("deleteMessage", u, id) IN
  /\ ReqSlotFree(r)
  /\ reqs' = [reqs EXCEPT ![r] =
       IF id \notin DOMAIN messages THEN Answer(q, 404)
       ELSE IF messages[id].senderId # u THEN Answer(q, 403)
       ELSE [q EXCEPT !.pc = "delete"]]
  /\ UNCHANGED <<storeVars, oldReqVars, notifs, convex, conv>>

\* deleteMessage: prisma.message.delete.
deleteMessage_delete(r) ==
  LET q == reqs[r] IN
  /\ q.op = "deleteMessage" /\ q.pc = "delete"
  /\ IF q.id \in DOMAIN messages
     THEN /\ messages' = [m \in DOMAIN messages \ {q.id} |-> messages[m]]
          /\ reqs' = [reqs EXCEPT ![r] = Answer(q, 200)]
     ELSE /\ UNCHANGED messages
          /\ reqs' = [reqs EXCEPT ![r] = Answer(q, 500)]
  /\ UNCHANGED <<users, posts, comments, nextId, oldReqVars, notifs, convex, conv>>

\* (authenticated user, id of the path) of the requests: the owner on the
\* stored row, another user on the stored row, the owner on a missing row.
PostInputs == {<<"s1", 1>>, <<"s2", 1>>, <<"s1", 2>>}
CommentInputs == {<<"s2", 1>>, <<"s1", 1>>, <<"s2", 2>>}
MessageInputs == {<<"o1", 1>>, <<"s1", 1>>, <<"o1", 2>>}
NotifInputs == {<<"s1", 1>>, <<"s2", 1>>, <<"s1", 2>>}

\* ------------------------------------- denied and not-found: properties
DeniedStores == <<users, posts, comments, messages, notifs, nextId>>

\* The row a request of handler op on id looks up is stored.
ExistsFor(op, id) ==
  CASE op \in {"updatePost", "deletePost", "likePost", "createComment"}
         -> id \in DOMAIN posts
    [] op \in {"updateComment", "deleteComment", "likeComment"}
         -> id \in DOMAIN comments
    [] op = "deleteMessage" -> id \in DOMAIN messages
    [] op \in {"markNotificationAsRead", "deleteNotification"}
         -> id \in DOMAIN notifs

\* The owning user of that row.
OwnerOf(op, id) ==
  CASE op \in {"updatePost", "deletePost"} -> posts[id].authorId
    [] op \in {"updateComment", "deleteComment"} -> comments[id].authorId
    [] op = "deleteMessage" -> messages[id].senderId
    [] op \in {"markNotificationAsRead", "deleteNotification"}
         -> notifs[id].userId

\* The step in which a request of handler op by u on id is received (q is
\* the request after the step): on a missing row it answers 404, on a row
\* of another user (for the owner-checked handlers) 403, and in both cases
\* the stores stay as they are.
DeniedOnArrival(q, op, u, id, ownerChecked) ==
  /\ ~ExistsFor(op, id)
     => q.pc = "done" /\ q.status = 404 /\ UNCHANGED DeniedStores
  /\ (ownerChecked /\ ExistsFor(op, id) /\ OwnerOf(op, id) # u)
     => q.pc = "done" /\ q.status = 403 /\ UNCHANGED DeniedStores

\* The step ends request q (p before the step) with 403 or 404.
EndsDenied(p, q) == p.pc # "done" /\ q.pc = "done" /\ q.status \in {403, 404}

\* C20: updatePost, deletePost, updateComment, deleteComment, deleteMessage,
\* markNotificationAsRead and deleteNotification answer 403 to a user who
\* does not own the row; these and likePost, likeComment, createComment
\* answer 404 when the row is missing; and every step that answers 403 or
\* 404 leaves every stored row as it was.
C20_DeniedRequestsChangeNothing ==
  [][/\ \A r \in ReqIds :
          /\ (reqs[r].pc = "idle" /\ reqs'[r].pc # "idle")
             => DeniedOnArrival(reqs'[r], reqs'[r].op, reqs'[r].user,
                                reqs'[r].id, TRUE)
          /\ EndsDenied(reqs[r], reqs'[r]) => UNCHANGED DeniedStores
     /\ \A r \in CommentReqIds :
          /\ (commentReqs[r].pc = "idle" /\ commentReqs'[r].pc # "idle")
             => LET q == commentReqs'[r] IN
                IF q.op = "deleteComment"
                THEN DeniedOnArrival(q, q.op, q.user, q.id, TRUE)
                ELSE DeniedOnArrival(q, q.op, q.user, q.postId, FALSE)
          /\ EndsDenied(commentReqs[r], commentReqs'[r]) => UNCHANGED DeniedStores
     /\ \A r \in LikeReqIds :
          /\ (likeReqs[r].pc = "idle" /\ likeReqs'[r].pc # "idle")
             => DeniedOnArrival(likeReqs'[r], likeReqs'[r].op,
                                likeReqs'[r].user, likeReqs'[r].id, FALSE)
          /\ EndsDenied(likeReqs[r], likeReqs'[r]) => UNCHANGED DeniedStores
    ]_vars

\* s2 was refused the deletion of s1's post and a deleteMessage named a
\* message that is not stored; the post and the message are as before.
C20_Witness ==
  /\ \E r \in ReqIds :
       /\ reqs[r].op = "deletePost" /\ reqs[r].user = "s2"
       /\ reqs[r].pc = "done" /\ reqs[r].status = 403
  /\ \E r \in ReqIds :
       /\ reqs[r].op = "deleteMessage" /\ reqs[r].id = 2
       /\ reqs[r].pc = "done" /\ reqs[r].status = 404
  /\ 1 \in DOMAIN posts /\ posts[1].authorId = "s1"
  /\ 1 \in DOMAIN messages

\* C23: createComment and deleteComment are all-or-nothing: a request that
\* has made its first write (the comment row created or deleted, position
\* "update") does not end in an error response, so an error response
\* always means that the request changed neither the Comment rows nor a
\* commentCount.
C23_CommentRequestsAllOrNothing ==
  [][\A r \in CommentReqIds :
       (commentReqs[r].pc = "update" /\ commentReqs'[r].pc = "done")
       => commentReqs'[r].status \in {200, 201}]_vars

DeniedNext ==
  \/ \E r \in ReqIds, i \in PostInputs :
       updatePost_findUnique(r, i[1], i[2])
  \/ \E r \in ReqIds : updatePost_update(r)
  \/ \E r \in ReqIds, i \in PostInputs :
       deletePost_findUnique(r, i[1], i[2])
  \/ \E r \in ReqIds, cascade \in BOOLEAN : deletePost_delete(r, cascade)
  \/ \E r \in ReqIds, i \in CommentInputs :
       updateComment_findUnique(r, i[1], i[2])
  \/ \E r \in ReqIds : updateComment_update(r)
  \/ \E r \in ReqIds, i \in MessageInputs :
       deleteMessage_findUnique(r, i[1], i[2])
  \/ \E r \in ReqIds : deleteMessage_delete(r)
  \/ \E r \in ReqIds, i \in NotifInputs :
       markNotificationAsRead_findUnique(r, i[1], i[2])
  \/ \E r \in ReqIds : markNotificationAsRead_update(r)
  \/ \E r \in ReqIds, i \in NotifInputs :
       deleteNotification_findUnique(r, i[1], i[2])
  \/ \E r \in ReqIds : deleteNotification_delete(r)
  \/ \E r \in CommentReqIds, i \in CommentInputs :
       deleteComment_findUnique(r, i[1], i[2])
  \/ \E r \in CommentReqIds : deleteComment_delete(r)
  \/ \E r \in CommentReqIds : deleteComment_update(r)
  \/ \E r \in CommentReqIds, postId \in PostIds :
       createComment_findUnique(r, "s1", postId)
  \/ \E r \in CommentReqIds : createComment_create(r)
  \/ \E r \in CommentReqIds : createComment_update(r)
  \/ \E r \in LikeReqIds, id \in PostIds :
       likePost_findUnique(r, "s2", id)
  \/ \E r \in LikeReqIds : likePost_update(r)
  \/ \E r \in LikeReqIds, id \in LikedCommentIds :
       likeComment_findUnique(r, "s1", id)
  \/ \E r \in LikeReqIds : likeComment_update(r)

SpecDenied == InitDenied /\ [][DeniedNext]_vars

\* ==================================================== conversation threads
\* getConversationWithUser (REST) and the Convex query getConversation over
\* a message store.  conv.store lists the stored messages in the order they
\* were inserted, t being createdAt / timestamp; a result lists positions of
\* conv.store.  conv records one call of one of the two queries.
ThreadUsers == {"s1", "s2"}
ConvMessages ==
  [senderId : ThreadUsers, recipients : {{"s1"}, {"s2"}, {"t1"}}, t : 1..MaxTime]
\* The arguments of the Convex query: any strings.
ConvexArgs == ThreadUsers \cup {"senderId", "recipientIds"}

RECURSIVE SeqsUpTo(_, _)
SeqsUpTo(S, n) ==
  IF n = 0 THEN {<<>>}
  ELSE LET shorter == SeqsUpTo(S, n - 1) IN
       shorter \cup {Append(q, x) : q \in {z \in shorter : Len(z) = n - 1}, x \in S}

InitConv ==
  /\ users = SeedUsers
  /\ posts = (1 :> [NewPost("s1") EXCEPT !.commentCount = 1])
  /\ comments = (1 :> NewComment(1, "s2"))
  /\ messages = <<>>
  /\ nextId = [comment |-> 2, message |-> 1, notification |-> 1]
  /\ notifs = <<>>
  /\ convex = NoConvex
  /\ reqs = [r \in ReqIds |-> NoReq]
  /\ likeReqs = [r \in LikeReqIds |-> NoLikeReq]
  /\ commentReqs = [r \in CommentReqIds |-> NoCommentReq]
  /\ msgReqs = [r \in MsgSlots |-> NoMsgReq]
  /\ perm = NoPerm
  /\ tog = NoTog
  /\ \E store \in SeqsUpTo(ConvMessages, MaxThread) :
       conv = [NoConv EXCEPT !.store = store]

\* The orders in which findMany may return the rows at the positions in
\* rows under orderBy {createdAt: 'asc'}: ascending in t; the database
\* fixes no order among rows of equal createdAt.
OrderedByCreatedAt(store, rows) ==
  {o \in [1..Cardinality(rows) -> rows] :
     /\ \A i, j \in DOMAIN o : i # j => o[i] # o[j]
     /\ \A i, j \in DOMAIN o : i < j => store[o[i]].t <= store[o[j]].t}

\* getConversationWithUser by the authenticated user me on /conversation/:userId.
getConversationWithUser(me, userId) ==
  LET store == conv.store
      rows == {i \in DOMAIN store :
                 \/ store[i].senderId = me /\ userId \in store[i].recipients
                 \/ store[i].senderId = userId /\ me \in store[i].recipients}
  IN
  /\ ~conv.called
  /\ \E o \in OrderedByCreatedAt(store, rows) :
       conv' = [conv EXCEPT !.impl = "rest", !.a = me, !.b = userId,
                            !.result = o, !.called = TRUE]
  /\ UNCHANGED <<storeVars, oldReqVars, notifs, convex, reqs>>

\* Array.prototype.sort with (a, b) => a.timestamp - b.timestamp: a stable
\* sort, here by insertion.
RECURSIVE SortByTimestamp(_, _)
SortByTimestamp(store, list) ==
  IF list = <<>> THEN <<>>
  ELSE LET n == Len(list)
           front == SortByTimestamp(store, SubSeq(list, 1, n - 1))
           x == list[n]
           k == Cardinality({i \in DOMAIN front : store[front[i]].t <= store[x].t})
       IN SubSeq(front, 1, k) \o <<x>> \o SubSeq(front, k + 1, Len(front))

\* q.eq(l, r) of a Convex filter: l and r are expressions or values, and a
\* bare string is a value (a field of the document is q.field(name)).
convexEq(l, r) == l = r

\* The filter of getConversation on document doc for the pair (x, y).
conversationFilter(doc, x, y) ==
  convexEq("senderId", x) /\ convexEq("recipientIds", y)

\* The positions of the documents the filtered query collects, in insertion
\* order.
Collect(store, x, y) ==
  SelectSeq([i \in DOMAIN store |-> i],
            LAMBDA i : conversationFilter(store[i], x, y))

\* The Convex query getConversation(user1Id, user2Id).
convex_getConversation(user1Id, user2Id) ==
  LET store == conv.store
      messages1 == Collect(store, user1Id, user2Id)
      messages2 == Collect(store, user2Id, user1Id)
  IN
  /\ ~conv.called
  /\ conv' = [conv EXCEPT !.impl = "convex", !.a = user1Id, !.b = user2Id,
                          !.result = SortByTimestamp(store, messages1 \o messages2),
                          !.called = TRUE]
  /\ UNCHANGED <<storeVars, oldReqVars, notifs, convex, reqs>>

\* ------------------------------------------------- conversations: properties
\* The positions of the stored messages between a and b.
ThreadOf(a, b) ==
  {i \in DOMAIN conv.store :
     \/ conv.store[i].senderId = a /\ b \in conv.store[i].recipients
     \/ conv.store[i].senderId = b /\ a \in conv.store[i].recipients}

\* C18: the thread returned for users a and b holds exactly the stored
\* messages sent by one of them to the other, each once, in ascending
\* creation time, whatever their insertion order.
C18_ThreadIsExactAndAscending ==
  conv.called
  => /\ Range(conv.result) = ThreadOf(conv.a, conv.b)
     /\ Len(conv.result) = Cardinality(ThreadOf(conv.a, conv.b))
     /\ \A i, j \in DOMAIN conv.result :
          i < j => conv.store[conv.result[i]].t <= conv.store[conv.result[j]].t

\* C19: messages of equal creation time appear in the returned thread of
\* two users in the order they were inserted into the store, whichever way
\* each was sent.
C19_TiesInInsertionOrder ==
  (conv.called /\ conv.a # conv.b)
  => \A i, j \in DOMAIN conv.result :
       (i < j /\ conv.store[conv.result[i]].t = conv.store[conv.result[j]].t)
       => conv.result[i] < conv.result[j]

ConvNext ==
  \/ \E me \in ThreadUsers, userId \in ThreadUsers :
       getConversationWithUser(me, userId)
  \/ \E user1Id \in ConvexArgs, user2Id \in ConvexArgs :
       convex_getConversation(user1Id, user2Id)

SpecConv == InitConv /\ [][ConvNext]_vars

\* ================================================================== users
\* register and updateUser on the seeded users.
\* (authenticated user, user id of the path): the user itself, an OFFICIAL
\* on another user and on itself, a STUDENT on another user, the new user.
UserPairs ==
  {<<"s1", "s1">>, <<"o1", "s1">>, <<"o1", "o1">>, <<"s2", "s1">>, <<"n1", "n1">>}
\* (position, branch) of a request body.
UserBodies == {<<"Dean", "IT">>, <<Undefined, "CSE">>}

\* C24: no step changes the role of a stored user or removes the user, and
\* the user a register request created has the role of that request:
\* neither updateUser (by the user or by an OFFICIAL) nor another register
\* writes a role.
C24_RoleNeverChanges ==
  [][/\ \A id \in DOMAIN users :
          id \in DOMAIN users' /\ users'[id].role = users[id].role
     /\ \A r \in ReqIds :
          (reqs'[r].op = "register" /\ reqs'[r].status = 201)
          => users'[reqs'[r].user].role = reqs'[r].arg]_vars

\* s1 was updated by itself and by an OFFICIAL and is still a STUDENT, now
\* of branch IT.
C24_Witness ==
  /\ \E r \in ReqIds :
       /\ reqs[r].op = "updateUser" /\ reqs[r].user = "s1" /\ reqs[r].id = "s1"
       /\ reqs[r].status = 200
  /\ \E r \in ReqIds :
       /\ reqs[r].op = "updateUser" /\ reqs[r].user = "o1" /\ reqs[r].id = "s1"
       /\ reqs[r].status = 200
  /\ users["s1"].role = "STUDENT" /\ users["s1"].branch = "IT"

\* C30: every stored OFFICIAL has no branch and every stored TEACHER or
\* STUDENT has no position.
C30_OnlyTheFieldOfTheRole ==
  \A id \in DOMAIN users :
    /\ users[id].role = "OFFICIAL" => users[id].branch = Null
    /\ users[id].role \in {"TEACHER", "STUDENT"} => users[id].position = Null

\* A user registered as OFFICIAL with a branch in the body and then updated
\* with a branch is stored without branch, and s1, updated with a position,
\* has none.
C30_Witness ==
  /\ "n1" \in DOMAIN users
  /\ users["n1"].role = "OFFICIAL" /\ users["n1"].branch = Null
  /\ users["n1"].position = "Dean"
  /\ \E r \in ReqIds :
       /\ reqs[r].op = "updateUser" /\ reqs[r].id = "s1" /\ reqs[r].status = 200
       /\ reqs[r].arg.position = "Dean"
  /\ users["s1"].position = Null

UserNext ==
  \/ \E r \in ReqIds, id \in NewUserIds, role \in Roles, b \in UserBodies :
       register(r, id, role, b[1], b[2])
  \/ \E r \in ReqIds, i \in UserPairs, b \in UserBodies :
       updateUser_findUnique(r, i[1], i[2], b[1], b[2])
  \/ \E r \in ReqIds : updateUser_update(r)

SpecUsers == Init /\ [][UserNext]_vars

\* ============================================================ read receipt
\* An OFFICIAL sends one message to all students; the sender, a recipient
\* and a user who is neither ask to mark it as read, and the sender deletes
\* it.
ReadSenders == {"o1"}
ReadUsers == {"o1", "t1", "s1"}

\* C27: isRead of a message turns true only in the update of a
\* markMessageAsRead request whose user is among the message's recipients;
\* a request by the sender or by any other user who is not among the
\* recipients ends with 403 and leaves the messages as they are; the flag
\* is one per message, so the request of one recipient sets it for the
\* message whatever the number of recipients.
C27_OnlyARecipientMarksRead ==
  [][/\ \A id \in DOMAIN messages :
          (id \in DOMAIN messages' /\ ~messages[id].isRead /\ messages'[id].isRead)
          => \E r \in ReqIds :
               /\ reqs[r].op = "markMessageAsRead" /\ reqs[r].pc = "update"
               /\ reqs[r].id = id /\ reqs[r].user \in messages[id].recipients
               /\ reqs'[r].pc = "done" /\ reqs'[r].status = 200
     /\ \A r \in ReqIds :
          (/\ reqs[r].pc = "idle" /\ reqs'[r].op = "markMessageAsRead"
           /\ reqs'[r].id \in DOMAIN messages
           /\ reqs'[r].user \notin messages[reqs'[r].id].recipients)
          => /\ reqs'[r].pc = "done" /\ reqs'[r].status = 403
             /\ messages' = messages
     /\ \A r \in ReqIds :
          (/\ reqs[r].op = "markMessageAsRead" /\ reqs[r].pc = "update"
           /\ reqs'[r].status = 200)
          => messages'[reqs[r].id].isRead]_vars

\* The message to both students was marked read by s1 alone, after the
\* sender and the teacher were refused.
C27_Witness ==
  /\ 1 \in DOMAIN messages
  /\ messages[1].recipients = {"s1", "s2"} /\ messages[1].isRead
  /\ \E r \in ReqIds :
       /\ reqs[r].op = "markMessageAsRead" /\ reqs[r].user = "o1"
       /\ reqs[r].status = 403
  /\ \E r \in ReqIds :
       /\ reqs[r].op = "markMessageAsRead" /\ reqs[r].user = "t1"
       /\ reqs[r].status = 403
  /\ \E r \in ReqIds :
       /\ reqs[r].op = "markMessageAsRead" /\ reqs[r].user = "s1"
       /\ reqs[r].status = 200

ReadNext ==
  \/ \E r \in MsgSlots, u \in ReadSenders :
       sendMessage_resolve(r, u, "STUDENT", Null, <<>>)
  \/ \E r \in MsgSlots : sendMessage_create(r)
  \/ \E r \in MsgSlots : sendMessage_connect(r)
  \/ \E r \in ReqIds, u \in ReadUsers, id \in MessageIds :
       markMessageAsRead_findUnique(r, u, id)
  \/ \E r \in ReqIds : markMessageAsRead_update(r)
  \/ \E r \in ReqIds, u \in ReadSenders, id \in MessageIds :
       deleteMessage_findUnique(r, u, id)
  \/ \E r \in ReqIds : deleteMessage_delete(r)

SpecRead == Init /\ [][ReadNext]_vars

====
